---- MODULE Spec2Model ----
(***************************************************************************)
(* The chat session and request-lifecycle controller of the Presontology   *)
(* front end (the second App component of src/unnamed/part_000, lines      *)
(* 186-545): the React state of the component, its event handlers, and the *)
(* continuations of the two asynchronous handlers after each await.        *)
(*                                                                         *)
(* JavaScript runs every handler and every continuation to completion, so  *)
(* each is one atomic action.  An asynchronous handler is suspended at     *)
(* `await fetch(...)` and at `await res.json()`; a suspended call is a     *)
(* record in queryCalls / graphCalls holding its position (pc) and locals. *)
(*                                                                         *)
(* The handlers are the operations: each may be invoked in any state.  The *)
(* `disabled` attributes of the rendered controls (lines 431, 529, 535)    *)
(* are markup, not part of the handlers; the only guard on isLoading in    *)
(* the handlers themselves is the one of handleSuggestedQuestionClick.     *)
(* The Show Graph and Hide Graph buttons are never disabled.               *)
(*                                                                         *)
(* A response arrives in two steps: fetch resolves with the status line    *)
(* (res.ok, res.status), then res.json() resolves with the parsed body or  *)
(* rejects.  owner is a history variable, not state of the component.      *)
(*                                                                         *)
(* A JavaScript string is a sequence of tokens; a token is a TLA+ string   *)
(* (one character, or an indivisible piece of text).  Other JavaScript     *)
(* values are records tagged by the field k.                               *)
(***************************************************************************)
EXTENDS Integers, Sequences, FiniteSets, TLC

VARIABLES
  prompt,            \* useState<string>('')                (line 187)
  messages,          \* useState<ChatMessage[]>([])         (line 188)
  isLoading,         \* useState<boolean>(false)            (line 189)
  showGraph,         \* useState<boolean>(false)            (line 190)
  graphData,         \* useState<GraphData | null>(null)    (line 191)
  graphDataLoading,  \* useState<boolean>(false)            (line 192)
  graphDataError,    \* useState<string | null>(null)       (line 193)
  queryCalls,        \* suspended handleSubmit calls
  graphCalls,        \* suspended fetchGraphDataAndShow calls
  now,               \* what new Date().toLocaleTimeString(...) returns
  nQuery,            \* number of /query requests issued so far
  nGraph,            \* number of /get_graph_data requests issued so far
  owner              \* history: owner[i] is the call that appended messages[i]

chatVars  == <<prompt, messages, isLoading>>
graphVars == <<showGraph, graphData, graphDataLoading, graphDataError>>
vars == <<prompt, messages, isLoading, showGraph, graphData, graphDataLoading,
          graphDataError, queryCalls, graphCalls, now, nQuery, nGraph, owner>>

(***************************************************************************)
(* Bounds of the model.                                                    *)
(***************************************************************************)
\* requests (of both kinds) issued in one run
MaxRequests == 2

(***************************************************************************)
(* JavaScript values.                                                      *)
(***************************************************************************)
undefined == [k |-> "undefined"]
null == [k |-> "null"]
Str(s) == [k |-> "string", v |-> s]
Bool(b) == [k |-> "boolean", v |-> b]
Arr(a) == [k |-> "array", v |-> a]

\* JavaScript truthiness of a value
Truthy(x) ==
  CASE x.k = "undefined" -> FALSE
    [] x.k = "null"      -> FALSE
    [] x.k = "string"    -> Len(x.v) > 0
    [] x.k = "boolean"   -> x.v
    [] OTHER             -> TRUE

\* a || b
Or(a, b) == IF Truthy(a) THEN a ELSE b

\* o.f for a parsed JSON object o: a field the object lacks reads undefined
Get(o, f) == IF f \in DOMAIN o THEN o[f] ELSE undefined

WhiteSpace == {" ", "\n", "\t"}

RECURSIVE TrimStart(_)
TrimStart(s) ==
  IF s = <<>> THEN <<>>
  ELSE IF Head(s) \in WhiteSpace THEN TrimStart(Tail(s)) ELSE s

RECURSIVE TrimEnd(_)
TrimEnd(s) ==
  IF s = <<>> THEN <<>>
  ELSE IF s[Len(s)] \in WhiteSpace THEN TrimEnd(SubSeq(s, 1, Len(s) - 1)) ELSE s

\* a blank check that forgets to trim
trimNothing(s) == s

\* String.prototype.trim
trim(s) == TrimEnd(TrimStart(s))

(***************************************************************************)
(* The clock.  toLocaleTimeString([], {hour: '2-digit', minute: '2-digit'})*)
(* gives the label of the current minute; now indexes the current one.     *)
(***************************************************************************)
Clock == <<"09:00", "09:01">>

timestampNow == Str(<<Clock[now]>>)

Tick ==
  /\ now < Len(Clock)
  /\ now' = now + 1
  /\ UNCHANGED <<prompt, messages, isLoading, showGraph, graphData,
                 graphDataLoading, graphDataError, queryCalls, graphCalls,
                 nQuery, nGraph, owner>>

(***************************************************************************)
(* Errors thrown or rejected with: only err.message is read.               *)
(***************************************************************************)
Error(message) == [k |-> "error", message |-> message]

\* `HTTP error! Status: ${res.status}`
HttpErrorText(status) == Str(<<"HTTP error! Status: ", ToString(status)>>)

\* new Error(errorData.error || `HTTP error! Status: ${res.status}`)
\* reading .error of null throws a TypeError instead
ErrorOfErrorData(errorData, status) ==
  IF errorData.k = "null"
  THEN Error(Str(<<"Cannot read properties of null (reading 'error')">>))
  ELSE Error(Or(Get(errorData, "error"), HttpErrorText(status)))

(***************************************************************************)
(* Chat: handleSubmit and its entry points.                                *)
(***************************************************************************)
\* const currentPrompt = suggestedText || prompt
CurrentPrompt(suggestedText) ==
  IF Truthy(suggestedText) THEN suggestedText.v ELSE prompt

\* a user message that stores the trimmed prompt
UserMessageTrimmed(currentPrompt, suggestedText) ==
  [type |-> "user",
   text |-> Str(trim(currentPrompt)),
   timestamp |-> timestampNow,
   isSuggested |-> Bool(Truthy(suggestedText))]

\* the object literal of lines 250-255
UserMessage(currentPrompt, suggestedText) ==
  [type |-> "user",
   text |-> Str(currentPrompt),
   timestamp |-> timestampNow,
   isSuggested |-> Bool(Truthy(suggestedText))]

\* an agent message that defaults the fields the response omits
AgentMessageDefaults(data) ==
  [type |-> "agent",
   text |-> Get(data, "agent_response"),
   timestamp |-> timestampNow,
   sparqlQuery |-> Or(Get(data, "sparql_query"), Str(<<>>)),
   rawQueryResults |-> Or(Get(data, "raw_query_results"), Arr(<<>>)),
   addedTriples |-> Or(Get(data, "added_triples"), Str(<<>>))]

\* the object literal of lines 276-283
AgentMessage(data) ==
  [type |-> "agent",
   text |-> Get(data, "agent_response"),
   timestamp |-> timestampNow,
   sparqlQuery |-> Get(data, "sparql_query"),
   rawQueryResults |-> Get(data, "raw_query_results"),
   addedTriples |-> Get(data, "added_triples")]

\* the object literal of lines 287-291
ErrorMessage(err) ==
  [type |-> "error",
   text |-> Or(err.message,
               Str(<<"An unexpected error occurred. Please try again.">>)),
   timestamp |-> timestampNow]

\* handleSubmit up to its first await (lines 244-268); promptSet is what a
\* setPrompt made by the caller earlier in the same event leaves in the draft
\* when handleSubmit returns early
handleSubmitFrom(suggestedText, promptSet) ==
  LET currentPrompt == CurrentPrompt(suggestedText) IN
  IF trim(currentPrompt) = <<>>
  THEN /\ prompt' = promptSet
       /\ UNCHANGED <<messages, isLoading, queryCalls, nQuery, owner>>
  ELSE /\ messages' = Append(messages, UserMessage(currentPrompt, suggestedText))
       /\ prompt' = <<>>
       /\ isLoading' = TRUE
       /\ nQuery' = nQuery + 1
       /\ queryCalls' = queryCalls \cup
            {[id |-> nQuery + 1, pc |-> "fetch",
              body |-> [prompt |-> Str(currentPrompt)], res |-> undefined]}
       /\ owner' = Append(owner, nQuery + 1)

handleSubmit(suggestedText) ==
  /\ handleSubmitFrom(suggestedText, prompt)
  /\ UNCHANGED <<showGraph, graphData, graphDataLoading, graphDataError,
                 graphCalls, now, nGraph>>

\* a click that submits whatever the draft holds
handleSuggestedQuestionClickDraft(question) ==
  /\ IF ~isLoading
     THEN handleSubmitFrom(undefined, question)
     ELSE UNCHANGED <<prompt, messages, isLoading, queryCalls, nQuery, owner>>
  /\ UNCHANGED <<showGraph, graphData, graphDataLoading, graphDataError,
                 graphCalls, now, nGraph>>

\* lines 297-302
handleSuggestedQuestionClick(question) ==
  /\ IF ~isLoading
     THEN handleSubmitFrom(Str(question), question)
     ELSE UNCHANGED <<prompt, messages, isLoading, queryCalls, nQuery, owner>>
  /\ UNCHANGED <<showGraph, graphData, graphDataLoading, graphDataError,
                 graphCalls, now, nGraph>>

\* lines 304-309
handleKeyDown(key, shiftKey) ==
  IF key = "Enter" /\ ~shiftKey
  THEN handleSubmit(undefined)
  ELSE UNCHANGED vars

\* the textarea's onChange (line 524)
onChange(value) ==
  /\ prompt' = value
  /\ UNCHANGED <<messages, isLoading, showGraph, graphData, graphDataLoading,
                 graphDataError, queryCalls, graphCalls, now, nQuery, nGraph,
                 owner>>

(***************************************************************************)
(* Chat: the continuations of handleSubmit.                                *)
(***************************************************************************)
\* a catch that lowers the flag on the success path only
handleSubmit_catchKeepsLoading(c, err) ==
  /\ messages' = Append(messages, ErrorMessage(err))
  /\ owner' = Append(owner, c.id)
  /\ queryCalls' = queryCalls \ {c}
  /\ UNCHANGED <<prompt, isLoading, showGraph, graphData, graphDataLoading,
                 graphDataError, graphCalls, now, nQuery, nGraph>>

\* a catch that turns the last message into the error message
handleSubmit_catchOverwrites(c, err) ==
  /\ messages' = [messages EXCEPT ![Len(messages)] = ErrorMessage(err)]
  /\ owner' = [owner EXCEPT ![Len(owner)] = c.id]
  /\ isLoading' = FALSE
  /\ queryCalls' = queryCalls \ {c}
  /\ UNCHANGED <<prompt, showGraph, graphData, graphDataLoading,
                 graphDataError, graphCalls, now, nQuery, nGraph>>

\* catch and finally (lines 285-294)
handleSubmit_catch(c, err) ==
  /\ messages' = Append(messages, ErrorMessage(err))
  /\ owner' = Append(owner, c.id)
  /\ isLoading' = FALSE
  /\ queryCalls' = queryCalls \ {c}
  /\ UNCHANGED <<prompt, showGraph, graphData, graphDataLoading,
                 graphDataError, graphCalls, now, nQuery, nGraph>>

\* fetch rejects (no response at all)
handleSubmit_fetchRejected(c, err) ==
  /\ c \in queryCalls /\ c.pc = "fetch"
  /\ handleSubmit_catch(c, err)

\* fetch resolves with the response's status line; both branches of line 270
\* go on to await res.json()
handleSubmit_fetchResolved(c, res) ==
  /\ c \in queryCalls /\ c.pc = "fetch"
  /\ queryCalls' = (queryCalls \ {c}) \cup {[c EXCEPT !.pc = "json", !.res = res]}
  /\ UNCHANGED <<prompt, messages, isLoading, showGraph, graphData,
                 graphDataLoading, graphDataError, graphCalls, now, nQuery,
                 nGraph, owner>>

\* an unparseable body of a non-success response reported by its status
handleSubmit_jsonRejectedByStatus(c, err) ==
  /\ c \in queryCalls /\ c.pc = "json"
  /\ handleSubmit_catch(c, IF c.res.ok THEN err
                           ELSE Error(HttpErrorText(c.res.status)))

\* res.json() rejects: the body is not JSON
handleSubmit_jsonRejected(c, err) ==
  /\ c \in queryCalls /\ c.pc = "json"
  /\ handleSubmit_catch(c, err)

\* res.json() resolves with the parsed body (lines 270-283, then finally)
handleSubmit_jsonResolved(c, parsed) ==
  /\ c \in queryCalls /\ c.pc = "json"
  /\ IF ~c.res.ok
     THEN handleSubmit_catch(c, ErrorOfErrorData(parsed, c.res.status))
     ELSE IF parsed.k = "null"
     THEN handleSubmit_catch(c,
            Error(Str(<<"Cannot read properties of null (reading 'agent_response')">>)))
     ELSE /\ messages' = Append(messages, AgentMessage(parsed))
          /\ owner' = Append(owner, c.id)
          /\ isLoading' = FALSE
          /\ queryCalls' = queryCalls \ {c}
          /\ UNCHANGED <<prompt, showGraph, graphData, graphDataLoading,
                         graphDataError, graphCalls, now, nQuery, nGraph>>

(***************************************************************************)
(* Graph: fetchGraphDataAndShow, its continuations, and handleHideGraph.   *)
(***************************************************************************)
\* a show that does not raise graphDataLoading
fetchGraphDataAndShowNotLoading ==
  /\ graphDataError' = null
  /\ showGraph' = TRUE
  /\ nGraph' = nGraph + 1
  /\ graphCalls' = graphCalls \cup
       {[id |-> nGraph + 1, pc |-> "fetch", res |-> undefined]}
  /\ UNCHANGED <<prompt, messages, isLoading, graphData, graphDataLoading,
                 queryCalls, now, nQuery, owner>>

\* fetchGraphDataAndShow up to its first await (lines 311-322)
fetchGraphDataAndShow ==
  /\ graphDataError' = null
  /\ graphDataLoading' = TRUE
  /\ showGraph' = TRUE
  /\ nGraph' = nGraph + 1
  /\ graphCalls' = graphCalls \cup
       {[id |-> nGraph + 1, pc |-> "fetch", res |-> undefined]}
  /\ UNCHANGED <<prompt, messages, isLoading, graphData, queryCalls, now,
                 nQuery, owner>>

\* a catch that keeps the snapshot it holds
fetchGraphDataAndShow_catchKeepsSnapshot(c, err) ==
  /\ graphDataError' =
       Or(err.message, Str(<<"Could not load graph data. Please try again.">>))
  /\ graphDataLoading' = FALSE
  /\ graphCalls' = graphCalls \ {c}
  /\ UNCHANGED <<prompt, messages, isLoading, showGraph, graphData, queryCalls,
                 now, nQuery, nGraph, owner>>

\* a failure of the graph fetch that also releases the chat's busy flag
fetchGraphDataAndShow_catchReleasesChat(c, err) ==
  /\ graphDataError' =
       Or(err.message, Str(<<"Could not load graph data. Please try again.">>))
  /\ graphData' = null
  /\ graphDataLoading' = FALSE
  /\ isLoading' = FALSE
  /\ graphCalls' = graphCalls \ {c}
  /\ UNCHANGED <<prompt, messages, showGraph, queryCalls, now, nQuery, nGraph,
                 owner>>

\* catch and finally (lines 331-337)
fetchGraphDataAndShow_catch(c, err) ==
  /\ graphDataError' =
       Or(err.message, Str(<<"Could not load graph data. Please try again.">>))
  /\ graphData' = null
  /\ graphDataLoading' = FALSE
  /\ graphCalls' = graphCalls \ {c}
  /\ UNCHANGED <<prompt, messages, isLoading, showGraph, queryCalls, now,
                 nQuery, nGraph, owner>>

fetchGraphDataAndShow_fetchRejected(c, err) ==
  /\ c \in graphCalls /\ c.pc = "fetch"
  /\ fetchGraphDataAndShow_catch(c, err)

fetchGraphDataAndShow_fetchResolved(c, res) ==
  /\ c \in graphCalls /\ c.pc = "fetch"
  /\ graphCalls' = (graphCalls \ {c}) \cup {[c EXCEPT !.pc = "json", !.res = res]}
  /\ UNCHANGED <<prompt, messages, isLoading, showGraph, graphData,
                 graphDataLoading, graphDataError, queryCalls, now, nQuery,
                 nGraph, owner>>

fetchGraphDataAndShow_jsonRejected(c, err) ==
  /\ c \in graphCalls /\ c.pc = "json"
  /\ fetchGraphDataAndShow_catch(c, err)

\* res.json() resolves with the parsed body (lines 324-330, then finally)
fetchGraphDataAndShow_jsonResolved(c, parsed) ==
  /\ c \in graphCalls /\ c.pc = "json"
  /\ IF ~c.res.ok
     THEN fetchGraphDataAndShow_catch(c, ErrorOfErrorData(parsed, c.res.status))
     ELSE /\ graphData' = parsed
          /\ graphDataLoading' = FALSE
          /\ graphCalls' = graphCalls \ {c}
          /\ UNCHANGED <<prompt, messages, isLoading, showGraph,
                         graphDataError, queryCalls, now, nQuery, nGraph,
                         owner>>

\* a hide that forgets the error description
handleHideGraphKeepsError ==
  /\ showGraph' = FALSE
  /\ graphData' = null
  /\ graphDataLoading' = FALSE
  /\ UNCHANGED <<prompt, messages, isLoading, graphDataError, queryCalls,
                 graphCalls, now, nQuery, nGraph, owner>>

\* lines 340-345
handleHideGraph ==
  /\ showGraph' = FALSE
  /\ graphData' = null
  /\ graphDataError' = null
  /\ graphDataLoading' = FALSE
  /\ UNCHANGED <<prompt, messages, isLoading, queryCalls, graphCalls, now,
                 nQuery, nGraph, owner>>

(***************************************************************************)
(* What the user and the backend may supply.                               *)
(***************************************************************************)
\* line 195-199 (each question is one token)
suggestedQuestions ==
  <<<<"Which standard presentation sections should be included for Artificial Intelligence?">>,
    <<"What is the recommended order of sections for the 'Methodology of our biochemical engineering system' section?">>,
    <<"Which quality indicators demonstrate scientific accuracy in data presentation and interpretation?">>>>

\* the suggested questions the user clicks
Clicked == {1}

\* drafts the user types: empty, whitespace only, text with whitespace around
Drafts == {<<>>, <<" ">>, <<" ", "a", "\n">>}

\* keys pressed in the textarea, with the state of shift
Keys == {<<"Enter", FALSE>>, <<"Enter", TRUE>>, <<"a", FALSE>>}

\* status lines of a response
Responses == {[ok |-> TRUE, status |-> 200], [ok |-> FALSE, status |-> 500]}

\* a network failure
FetchErrors == {Error(Str(<<"Failed to fetch">>))}

\* a body that is not JSON
JsonErrors == {Error(Str(<<"Unexpected token < in JSON at position 0">>))}

\* parsed bodies of /query: an error report and a full answer
QueryBodies ==
  {[k |-> "object", error |-> Str(<<"Knowledge graph unavailable">>)],
   [k |-> "object", user_prompt |-> Str(<<"q">>),
    sparql_query |-> Str(<<"SELECT ...">>),
    raw_query_results |-> Arr(<<[author |-> Str(<<"Orwell">>)]>>),
    agent_response |-> Str(<<"George Orwell wrote 1984.">>),
    added_triples |-> Str(<<"ex:a ex:b ex:c .">>)]}

\* parsed bodies of /get_graph_data
GraphBodies ==
  {null,
   [k |-> "object", error |-> Str(<<"Graph store unavailable">>)],
   [k |-> "object",
    nodes |-> Arr(<<[id |-> Str(<<"n1">>), name |-> Str(<<"Orwell">>)]>>),
    links |-> Arr(<<>>)]}

(***************************************************************************)
(* The specification.                                                      *)
(***************************************************************************)
Init ==
  /\ prompt = <<>>
  /\ messages = <<>>
  /\ isLoading = FALSE
  /\ showGraph = FALSE
  /\ graphData = null
  /\ graphDataLoading = FALSE
  /\ graphDataError = null
  /\ queryCalls = {}
  /\ graphCalls = {}
  /\ now = 1
  /\ nQuery = 0
  /\ nGraph = 0
  /\ owner = <<>>

\* the form's onSubmit (line 521): React passes the event only
FormSubmit == nQuery + nGraph < MaxRequests /\ handleSubmit(undefined)

KeyDown == \E key \in Keys : nQuery + nGraph < MaxRequests /\ handleKeyDown(key[1], key[2])

SuggestedQuestionClick ==
  \E i \in Clicked :
    nQuery + nGraph < MaxRequests /\ handleSuggestedQuestionClick(suggestedQuestions[i])

Type == \E value \in Drafts : onChange(value)

QueryFetchRejected ==
  \E c \in queryCalls, err \in FetchErrors : handleSubmit_fetchRejected(c, err)

QueryFetchResolved ==
  \E c \in queryCalls, res \in Responses : handleSubmit_fetchResolved(c, res)

QueryJsonRejected ==
  \E c \in queryCalls, err \in JsonErrors : handleSubmit_jsonRejected(c, err)

QueryJsonResolved ==
  \E c \in queryCalls, parsed \in QueryBodies : handleSubmit_jsonResolved(c, parsed)

ShowGraph == nQuery + nGraph < MaxRequests /\ fetchGraphDataAndShow

HideGraph == handleHideGraph

GraphFetchRejected ==
  \E c \in graphCalls, err \in FetchErrors :
    fetchGraphDataAndShow_fetchRejected(c, err)

GraphFetchResolved ==
  \E c \in graphCalls, res \in Responses :
    fetchGraphDataAndShow_fetchResolved(c, res)

GraphJsonRejected ==
  \E c \in graphCalls, err \in JsonErrors :
    fetchGraphDataAndShow_jsonRejected(c, err)

GraphJsonResolved ==
  \E c \in graphCalls, parsed \in GraphBodies :
    fetchGraphDataAndShow_jsonResolved(c, parsed)

Next ==
  \/ FormSubmit
  \/ KeyDown
  \/ SuggestedQuestionClick
  \/ Type
  \/ QueryFetchRejected
  \/ QueryFetchResolved
  \/ QueryJsonRejected
  \/ QueryJsonResolved
  \/ ShowGraph
  \/ HideGraph
  \/ GraphFetchRejected
  \/ GraphFetchResolved
  \/ GraphJsonRejected
  \/ GraphJsonResolved
  \/ Tick

Spec == Init /\ [][Next]_vars

\* every request that was issued settles: the transport answers or fails, and
\* a body that has arrived parses or fails to parse
QuerySettles ==
  \/ QueryFetchRejected \/ QueryFetchResolved
  \/ QueryJsonRejected \/ QueryJsonResolved

GraphSettles ==
  \/ GraphFetchRejected \/ GraphFetchResolved
  \/ GraphJsonRejected \/ GraphJsonResolved

FairSpec == Spec /\ WF_vars(QuerySettles) /\ WF_vars(GraphSettles)

(***************************************************************************)
(* Vocabulary of the properties.                                           *)
(***************************************************************************)
IsBlank(s) == \A i \in 1..Len(s) : s[i] \in {" ", "\n", "\t"}

IsPrefix(s, t) == Len(s) <= Len(t) /\ \A i \in 1..Len(s) : s[i] = t[i]

IsOutcome(m) == m.type \in {"agent", "error"}

QueryInFlight(id) == \E c \in queryCalls : c.id = id

\* the state handleHideGraph is meant to leave
Hidden ==
  /\ showGraph = FALSE
  /\ graphData = null
  /\ graphDataError = null
  /\ graphDataLoading = FALSE

(***************************************************************************)
(* C1.  Busy flags are never left stuck: with no /query request in flight  *)
(* isLoading is false, with no /get_graph_data request in flight           *)
(* graphDataLoading is false, whatever way the requests settled; and when  *)
(* every issued request settles, a flag that is up comes down.             *)
(***************************************************************************)
C1_FlagsDownWhenIdle ==
  /\ queryCalls = {} => isLoading = FALSE
  /\ graphCalls = {} => graphDataLoading = FALSE

C1_BusyFlagsReleased ==
  /\ []C1_FlagsDownWhenIdle
  /\ []<>(isLoading = FALSE)
  /\ []<>(graphDataLoading = FALSE)

\* both flows have settled with a failure and both flags are down
C1_Witness ==
  /\ nQuery = 1 /\ queryCalls = {} /\ isLoading = FALSE
  /\ messages[Len(messages)].type = "error"
  /\ nGraph = 1 /\ graphCalls = {} /\ graphDataLoading = FALSE
  /\ graphDataError # null

(***************************************************************************)
(* C2.  handleSubmit itself keeps /query requests from overlapping: while  *)
(* a request is in flight no step issues another request or appends a      *)
(* user message.                                                           *)
(***************************************************************************)
C2_SubmitWhilePendingIsNoOp ==
  [][queryCalls # {} =>
       /\ nQuery' = nQuery
       /\ \A i \in (Len(messages) + 1)..Len(messages') :
            messages'[i].type # "user"]_vars

(***************************************************************************)
(* C3.  An accepted handleSubmit appends the user message with the prompt  *)
(* verbatim and empties the draft before the request goes out, and the     *)
(* request's settlement appends exactly one agent or error message, after  *)
(* its user message: never none, never two.                                *)
(***************************************************************************)
C3_Accepted ==
  nQuery' # nQuery =>
    LET m == messages'[Len(messages')]
        c == CHOOSE x \in queryCalls' : x.id = nQuery'
    IN  /\ nQuery' = nQuery + 1
        /\ messages' = Append(messages, m)
        /\ owner' = Append(owner, nQuery')
        /\ m.type = "user"
        /\ m.text.k = "string"
        /\ m.text.v \in {prompt} \cup {suggestedQuestions[i] : i \in Clicked}
        /\ ~IsBlank(m.text.v)
        /\ prompt' = <<>>
        /\ queryCalls' = queryCalls \cup {c}
        /\ c.pc = "fetch"
        /\ c.body.prompt = m.text

C3_OneOutcomeEach ==
  \A id \in 1..nQuery :
    LET users == {i \in DOMAIN messages :
                    owner[i] = id /\ messages[i].type = "user"}
        outcomes == {i \in DOMAIN messages :
                       owner[i] = id /\ IsOutcome(messages[i])}
    IN  /\ Cardinality(users) = 1
        /\ Cardinality(outcomes) = IF QueryInFlight(id) THEN 0 ELSE 1
        /\ \A u \in users, o \in outcomes : u < o

C4_NoBlankPromptAccepted ==
  /\ \A i \in DOMAIN messages :
       messages[i].type = "user" => ~IsBlank(messages[i].text.v)
  /\ \A c \in queryCalls : ~IsBlank(c.body.prompt.v)

C4_BlankSubmitIsNoOp ==
  /\ []C4_NoBlankPromptAccepted
  /\ [][(IsBlank(prompt) /\ handleSubmit(undefined)) => UNCHANGED vars]_vars

\* a white-space-only draft is in the input and nothing was submitted
C4_Witness ==
  /\ prompt = <<" ">>
  /\ messages = <<>>
  /\ isLoading = FALSE
  /\ nQuery = 0

(***************************************************************************)
(* C5.  The transcript strictly alternates user message and outcome, the   *)
(* outcome at an even position being that of the request of the user       *)
(* message before it.                                                      *)
(***************************************************************************)
C5_StrictAlternation ==
  \A i \in DOMAIN messages :
    IF i % 2 = 1
    THEN messages[i].type = "user"
    ELSE IsOutcome(messages[i]) /\ owner[i] = owner[i - 1]

(***************************************************************************)
(* C6.  The transcript is append-only and its messages are immutable:      *)
(* across every step the old transcript is a prefix of the new one.        *)
(***************************************************************************)
C6_AppendOnly == [][IsPrefix(messages, messages')]_vars

\* a request failed: its error message follows its user message
C6_Witness ==
  /\ Len(messages) >= 2
  /\ messages[1].type = "user"
  /\ messages[2].type = "error"
  /\ owner[2] = owner[1]

(***************************************************************************)
(* C7.  A graph response that arrives after handleHideGraph is discarded:  *)
(* a hidden graph holds neither a snapshot nor an error description.       *)
(***************************************************************************)
C7_StaleResponseDiscarded ==
  showGraph = FALSE => graphData = null /\ graphDataError = null

(***************************************************************************)
(* C8.  fetchGraphDataAndShow while a graph fetch is loading is a no-op:   *)
(* no second /get_graph_data request is issued.                            *)
(***************************************************************************)
C8_ShowWhileLoadingIsNoOp ==
  [][(graphDataLoading = TRUE /\ graphCalls # {}) => nGraph' = nGraph]_vars

(***************************************************************************)
(* C9.  The graph state reflects one fetch only: graphData and             *)
(* graphDataError are never both set.                                      *)
(***************************************************************************)
C9_NoMixedOutcome == ~(graphData # null /\ graphDataError # null)

Undisturbed(c) ==
  /\ graphCalls = {c}
  /\ c.id = nGraph
  /\ graphDataLoading = TRUE

GraphInFlight(id) == \E c \in graphCalls : c.id = id

IsDescription(x) == x.k = "string" /\ Len(x.v) > 0

C11_LoadingUntilSettled ==
  \A c \in graphCalls :
    Undisturbed(c) => showGraph = TRUE /\ graphDataError = null

C11_Settlement ==
  \A c \in graphCalls :
    (Undisturbed(c) /\ ~GraphInFlight(c.id)') =>
      /\ showGraph' = TRUE
      /\ graphDataLoading' = FALSE
      /\ IF /\ c.pc = "json" /\ c.res.ok
            /\ \E p \in GraphBodies : fetchGraphDataAndShow_jsonResolved(c, p)
         THEN /\ graphDataError' = null
              /\ \A p \in GraphBodies :
                   fetchGraphDataAndShow_jsonResolved(c, p) => graphData' = p
         ELSE /\ IsDescription(graphDataError')
              /\ graphData' = null

C11_SingleFetchOutcome ==
  /\ []C11_LoadingUntilSettled
  /\ [][C11_Settlement]_vars

\* a second fetch, alone in flight, has met a non-success status while the
\* snapshot of the first is still held
C11_Witness ==
  \E c \in graphCalls :
    /\ Undisturbed(c)
    /\ c.pc = "json" /\ ~c.res.ok
    /\ graphData # null

(***************************************************************************)
(* C12.  The visibility of the graph is always hidden, loading,            *)
(* shown-with-error or shown-with-data, and changes only from hidden to    *)
(* loading by a show, from loading to shown-with-data or shown-with-error  *)
(* by a settlement, from shown-with-data to loading by a show, and to      *)
(* hidden by a hide.                                                       *)
(***************************************************************************)
\* what the graph panel shows (lines 360-375)
Visibility ==
  IF ~showGraph THEN "hidden"
  ELSE IF graphDataLoading THEN "loading"
  ELSE IF graphDataError # null THEN "shown-with-error"
  ELSE IF graphData # null THEN "shown-with-data"
  ELSE "shown-with-nothing"

ShowStep == nGraph' = nGraph + 1

SettleStep == \E c \in graphCalls : ~GraphInFlight(c.id)'

C12_ValidChange ==
  Visibility' # Visibility =>
    \/ Visibility = "hidden" /\ Visibility' = "loading" /\ ShowStep
    \/ /\ Visibility = "loading"
       /\ Visibility' \in {"shown-with-data", "shown-with-error"}
       /\ SettleStep
    \/ Visibility = "shown-with-data" /\ Visibility' = "loading" /\ ShowStep
    \/ Visibility' = "hidden" /\ handleHideGraph

C12_VisibilityStateMachine ==
  /\ [](Visibility \in
          {"hidden", "loading", "shown-with-error", "shown-with-data"})
  /\ [][C12_ValidChange]_vars

(***************************************************************************)
(* C13.  A fetchGraphDataAndShow discards the snapshot held before it: the *)
(* step that issues the fetch leaves graphData null, so no snapshot of an  *)
(* earlier generation is held while the new fetch is in flight.            *)
(***************************************************************************)
C13_RefetchDiscardsSnapshot ==
  [][nGraph' # nGraph => graphData' = null]_vars

(***************************************************************************)
(* C14.  A snapshot stored earlier is not drawn once a new fetch has       *)
(* begun: the step that issues a fetch leaves nothing drawn, and a state   *)
(* in which the graph is drawn is reached only by the settlement that      *)
(* delivers the snapshot drawn, or from a state that drew the same         *)
(* snapshot with no fetch issued in between.                               *)
(***************************************************************************)
\* the ForceGraph2D element is rendered (lines 360 and 375)
Rendered ==
  /\ showGraph
  /\ Truthy(graphData)
  /\ ~graphDataLoading
  /\ ~Truthy(graphDataError)

\* this step is the settlement of a success response and stores its body
Delivered ==
  \E c \in graphCalls, p \in GraphBodies :
    /\ fetchGraphDataAndShow_jsonResolved(c, p)
    /\ c.res.ok
    /\ graphData' = p

C14_Step ==
  /\ ShowStep => ~Rendered'
  /\ Rendered' =>
       \/ Rendered /\ graphData' = graphData /\ nGraph' = nGraph
       \/ Delivered

C14_OldSnapshotNotDrawn == [][C14_Step]_vars

\* a re-fetch is alone in flight, the old snapshot is still held, and the
\* graph is not drawn
C14_Witness ==
  \E c \in graphCalls :
    /\ Undisturbed(c)
    /\ nGraph = 2
    /\ graphData # null
    /\ showGraph
    /\ ~Rendered

(***************************************************************************)
(* One /query exchange with every shape of response: each field of the     *)
(* body present, present but empty, or omitted; a body of null; a failure  *)
(* with and without a description.                                         *)
(***************************************************************************)
\* a JSON object with the field f omitted, or holding one of vals
Opt(f, vals) ==
  {[k |-> "object"]} \cup {[k |-> "object"] @@ (f :> v) : v \in vals}

AllQueryBodies ==
  {null} \cup
  {a @@ s @@ r @@ t @@ e :
     a \in Opt("agent_response",
               {Str(<<>>), Str(<<"George Orwell wrote 1984.">>)}),
     s \in Opt("sparql_query", {Str(<<>>), Str(<<"SELECT ...">>)}),
     r \in Opt("raw_query_results",
               {Arr(<<>>), Arr(<<[author |-> Str(<<"Orwell">>)]>>)}),
     t \in Opt("added_triples", {Str(<<>>), Str(<<"ex:a ex:b ex:c .">>)}),
     e \in Opt("error", {Str(<<>>), Str(<<"Knowledge graph unavailable">>)})}

AllResponses ==
  {[ok |-> TRUE, status |-> 200], [ok |-> FALSE, status |-> 500],
   [ok |-> FALSE, status |-> 404]}

\* a failure with a description, and one that carries none
AllFetchErrors == {Error(Str(<<"Failed to fetch">>)), Error(Str(<<>>))}

FirstFormSubmit == nQuery = 0 /\ handleSubmit(undefined)

FirstSuggestedQuestionClick ==
  \E i \in Clicked :
    nQuery = 0 /\ handleSuggestedQuestionClick(suggestedQuestions[i])

AnyQueryFetchRejected ==
  \E c \in queryCalls, err \in AllFetchErrors :
    handleSubmit_fetchRejected(c, err)

AnyQueryFetchResolved ==
  \E c \in queryCalls, res \in AllResponses :
    handleSubmit_fetchResolved(c, res)

AnyQueryJsonResolved ==
  \E c \in queryCalls, parsed \in AllQueryBodies :
    handleSubmit_jsonResolved(c, parsed)

PayloadNext ==
  \/ FirstFormSubmit
  \/ FirstSuggestedQuestionClick
  \/ Type
  \/ AnyQueryFetchRejected
  \/ AnyQueryFetchResolved
  \/ QueryJsonRejected
  \/ AnyQueryJsonResolved

PayloadSpec == Init /\ [][PayloadNext]_vars

(***************************************************************************)
(* C15.  A success response is carried into the agent message field by     *)
(* field: text, sparqlQuery, rawQueryResults and addedTriples equal        *)
(* agent_response, sparql_query, raw_query_results and added_triples where *)
(* the response has them, and are undefined (not empty) where it omits     *)
(* them.                                                                   *)
(***************************************************************************)
Carried(v, body, f) ==
  IF f \in DOMAIN body THEN v = body[f] ELSE v = [k |-> "undefined"]

C15_Step ==
  \A c \in queryCalls, p \in AllQueryBodies :
    (handleSubmit_jsonResolved(c, p) /\ c.res.ok /\ p # null) =>
      LET m == messages'[Len(messages')] IN
        /\ messages' = Append(messages, m)
        /\ m.type = "agent"
        /\ Carried(m.text, p, "agent_response")
        /\ Carried(m.sparqlQuery, p, "sparql_query")
        /\ Carried(m.rawQueryResults, p, "raw_query_results")
        /\ Carried(m.addedTriples, p, "added_triples")

C15_PayloadRoundTrip == [][C15_Step]_vars

\* an answer whose query was omitted and whose results and triples were
\* present but empty
C15_Witness ==
  /\ Len(messages) = 2
  /\ messages[2].type = "agent"
  /\ messages[2].text = Str(<<"George Orwell wrote 1984.">>)
  /\ messages[2].sparqlQuery = undefined
  /\ messages[2].rawQueryResults = Arr(<<>>)
  /\ messages[2].addedTriples = Str(<<>>)

(***************************************************************************)
(* C16.  The text of the error message of a failed /query request: the     *)
(* body's non-empty error field verbatim; "HTTP error! Status: <status>"   *)
(* when the non-success body is JSON without an error field; the           *)
(* transport failure's own description when fetch rejects, the static      *)
(* fallback only when that description is missing; never empty.            *)
(***************************************************************************)
LastText(msgs) == msgs[Len(msgs)].text

AppendsError(text) ==
  /\ Len(messages') = Len(messages) + 1
  /\ messages'[Len(messages')].type = "error"
  /\ LastText(messages') = text

C16_Step ==
  /\ \A c \in queryCalls, p \in AllQueryBodies :
       (handleSubmit_jsonResolved(c, p) /\ ~c.res.ok) =>
         IF "error" \in DOMAIN p
           THEN Len(p.error.v) > 0 => AppendsError(p.error)
           ELSE AppendsError(Str(<<"HTTP error! Status: ",
                                   ToString(c.res.status)>>))
  /\ \A c \in queryCalls, err \in AllFetchErrors :
       handleSubmit_fetchRejected(c, err) =>
         IF Len(err.message.v) > 0
           THEN AppendsError(err.message)
           ELSE AppendsError(
                  Str(<<"An unexpected error occurred. Please try again.">>))

C16_NeverEmpty ==
  \A i \in 1..Len(messages) :
    messages[i].type = "error" =>
      messages[i].text.k = "string" /\ Len(messages[i].text.v) > 0

C16_ErrorTextSelection == []C16_NeverEmpty /\ [][C16_Step]_vars

(***************************************************************************)
(* C17.  A malformed /query response is a failure: a body that cannot be   *)
(* parsed, or one that parses but lacks agent_response, appends an error   *)
(* message and no agent message; so every agent message of the transcript  *)
(* has a defined text.                                                     *)
(***************************************************************************)
C17_AgentTextDefined ==
  \A i \in 1..Len(messages) :
    messages[i].type = "agent" => messages[i].text.k = "string"

C17_Step ==
  /\ \A c \in queryCalls, err \in JsonErrors :
       handleSubmit_jsonRejected(c, err) =>
         /\ Len(messages') = Len(messages) + 1
         /\ messages'[Len(messages')].type = "error"
  /\ \A c \in queryCalls, p \in AllQueryBodies :
       (handleSubmit_jsonResolved(c, p)
          /\ ~("agent_response" \in DOMAIN p)) =>
         /\ Len(messages') = Len(messages) + 1
         /\ messages'[Len(messages')].type = "error"

C17_MalformedIsFailure == []C17_AgentTextDefined /\ [][C17_Step]_vars

(***************************************************************************)
(* C18.  The chat flow and the graph flow touch disjoint state and may     *)
(* overlap: showing the graph, the settlement of a graph fetch and hiding  *)
(* the graph leave the transcript, isLoading and the draft unchanged;      *)
(* submitting and the settlement of a /query request leave showGraph,      *)
(* graphData, graphDataLoading and graphDataError unchanged.               *)
(***************************************************************************)
chatSide == <<prompt, messages, isLoading, queryCalls, nQuery>>

graphSide ==
  <<showGraph, graphData, graphDataLoading, graphDataError, graphCalls, nGraph>>

GraphFlowStep ==
  \/ fetchGraphDataAndShow
  \/ handleHideGraph
  \/ \E c \in graphCalls :
       \/ \E err \in FetchErrors : fetchGraphDataAndShow_fetchRejected(c, err)
       \/ \E res \in Responses : fetchGraphDataAndShow_fetchResolved(c, res)
       \/ \E err \in JsonErrors : fetchGraphDataAndShow_jsonRejected(c, err)
       \/ \E p \in GraphBodies : fetchGraphDataAndShow_jsonResolved(c, p)

ChatFlowStep ==
  \/ handleSubmit(undefined)
  \/ \E i \in Clicked : handleSuggestedQuestionClick(suggestedQuestions[i])
  \/ \E k \in Keys : handleKeyDown(k[1], k[2])
  \/ \E c \in queryCalls :
       \/ \E err \in FetchErrors : handleSubmit_fetchRejected(c, err)
       \/ \E res \in Responses : handleSubmit_fetchResolved(c, res)
       \/ \E err \in JsonErrors : handleSubmit_jsonRejected(c, err)
       \/ \E p \in QueryBodies : handleSubmit_jsonResolved(c, p)

C18_Step ==
  /\ GraphFlowStep => UNCHANGED chatSide
  /\ ChatFlowStep => UNCHANGED graphSide
  /\ ~(chatSide' # chatSide /\ graphSide' # graphSide)

C18_FlowsAreDisjoint == [][C18_Step]_vars

\* both requests in flight at once, the transcript already holding an
\* earlier exchange's user message
C18_Witness ==
  /\ queryCalls # {} /\ isLoading = TRUE
  /\ graphCalls # {} /\ graphDataLoading = TRUE /\ showGraph = TRUE
  /\ Len(messages) = 1

(***************************************************************************)
(* C19.  handleSuggestedQuestionClick(q) changes nothing and issues no     *)
(* request while isLoading is true; otherwise it submits q itself, not the *)
(* draft: it appends a user message with text q and isSuggested true,      *)
(* sends q, and leaves the draft empty.  A typed submit appends a user     *)
(* message with isSuggested false, so the flag is true only on messages    *)
(* that came from a suggestion.                                            *)
(***************************************************************************)
Questions == {suggestedQuestions[i] : i \in 1..Len(suggestedQuestions)}

C19_Click ==
  \A q \in Questions :
    handleSuggestedQuestionClick(q) =>
      IF isLoading
      THEN UNCHANGED vars
      ELSE LET m == messages'[Len(messages')] IN
           /\ Len(messages') = Len(messages) + 1
           /\ \A i \in 1..Len(messages) : messages'[i] = messages[i]
           /\ m.type = "user"
           /\ m.text = [k |-> "string", v |-> q]
           /\ m.isSuggested = [k |-> "boolean", v |-> TRUE]
           /\ prompt' = <<>>
           /\ nQuery' = nQuery + 1
           /\ \E c \in queryCalls' \ queryCalls :
                /\ queryCalls' = queryCalls \cup {c}
                /\ c.body.prompt = [k |-> "string", v |-> q]

C19_Typed ==
  (/\ handleSubmit([k |-> "undefined"]) \/ \E k \in Keys : handleKeyDown(k[1], k[2])
   /\ Len(messages') = Len(messages) + 1) =>
    LET m == messages'[Len(messages')] IN
    /\ m.type = "user"
    /\ m.text = [k |-> "string", v |-> prompt]
    /\ m.isSuggested = [k |-> "boolean", v |-> FALSE]

C19_FlagOnlyOnSuggestions ==
  \A i \in 1..Len(messages) :
    messages[i].type = "user" =>
      /\ messages[i].isSuggested.k = "boolean"
      /\ messages[i].isSuggested.v => messages[i].text.v \in Questions

C19_SuggestionSubmitsItself ==
  []C19_FlagOnlyOnSuggestions /\ [][C19_Click /\ C19_Typed]_vars

\* a transcript holding a suggested question and a typed one
C19_Witness ==
  \E i, j \in 1..Len(messages) :
    /\ messages[i].type = "user" /\ messages[i].isSuggested.v
    /\ messages[i].text.v = suggestedQuestions[1]
    /\ messages[j].type = "user" /\ ~messages[j].isSuggested.v

(***************************************************************************)
(* C20.  A non-success response whose body cannot be parsed is still       *)
(* caught: it becomes exactly one error (an error message of the           *)
(* transcript, or the graph error description), the busy flag is released, *)
(* and the text shown is the parse failure's description, not              *)
(* "HTTP error! Status: <status>".                                         *)
(***************************************************************************)
StatusText(res) == [k |-> "string", v |-> <<"HTTP error! Status: ", ToString(res.status)>>]

C20_Step ==
  /\ \A c \in queryCalls, err \in JsonErrors :
       (handleSubmit_jsonRejected(c, err) /\ ~c.res.ok) =>
         /\ Len(messages') = Len(messages) + 1
         /\ \A i \in 1..Len(messages) : messages'[i] = messages[i]
         /\ messages'[Len(messages')].type = "error"
         /\ messages'[Len(messages')].text = err.message
         /\ messages'[Len(messages')].text # StatusText(c.res)
         /\ isLoading' = FALSE
         /\ ~QueryInFlight(c.id)'
  /\ \A c \in graphCalls, err \in JsonErrors :
       (fetchGraphDataAndShow_jsonRejected(c, err) /\ ~c.res.ok) =>
         /\ graphDataError' = err.message
         /\ graphDataError' # StatusText(c.res)
         /\ graphDataLoading' = FALSE
         /\ ~GraphInFlight(c.id)'

C20_UnparseableFailureBody == [][C20_Step]_vars

\* the graph panel shows a parse failure while a /query request that was
\* answered with a non-success status waits for its body
C20_Witness ==
  /\ graphDataError \in {err.message : err \in JsonErrors}
  /\ graphDataLoading = FALSE
  /\ \E c \in queryCalls : c.pc = "json" /\ ~c.res.ok

====
